---------------------------- MODULE Spec2Model ----------------------------
(***************************************************************************)
(* perco_web: the synchronisation of staff/card records from Firebird into *)
(* the PostgreSQL table staff_cards (src/main.go).                         *)
(*                                                                         *)
(* Every /update request is served by its own goroutine running            *)
(* updateHandler; one run of the handler is modelled as a process of Runs, *)
(* one action per database call.  The destination is modelled with the     *)
(* visibility rules of PostgreSQL at READ COMMITTED: a row carries the     *)
(* transaction that inserted it (xmin) and the one that deleted it (xmax); *)
(* other sessions see a row iff its insert is committed and its delete is  *)
(* not.  DDL (ALTER TABLE, CREATE TABLE) issued on the *sql.DB handle is   *)
(* autocommitted.                                                          *)
(***************************************************************************)
EXTENDS Integers, Sequences, FiniteSets, TLC

\* Bounds of the model.
MaxRuns == 2      \* /update requests served
MaxRows == 2      \* rows returned by the source join
MaxTime == 3      \* wall-clock readings, in half seconds
MaxOffset == 1    \* first staff/card pair of the source, counted from 0

Runs == 1 .. MaxRuns

VARIABLES
    now,          \* the last reading of the wall clock (half seconds)
    staff_cards,  \* public.staff_cards: [exists, cols, rows]
    archives,     \* the tables staff_cards_old_<ts>: set of [name, cols, rows]
    otherCols,    \* columns of a table staff_cards in a schema other than public
    txState,      \* run -> state of the transaction it opened, on the server
    pc,           \* run -> the statement of updateHandler it is about to execute
    fbDB,         \* run -> the Firebird handle: "none" | "open" | "closed"
    cursor,       \* run -> the rows of the source result not yet scanned
    staffCards,   \* run -> the slice staffCards
    pgDB,         \* run -> the PostgreSQL handle: "none" | "open" | "closed"
    err,          \* run -> the function-scope variable err: "nil" | "error"
    updateTime,   \* run -> updateTime, <<>> before it is computed
    insertCount,  \* run -> insertCount
    outcome,      \* run -> the response written: "none" before the run has returned
    preRun,       \* run -> the committed destination when the run started
    searchReply,  \* the last response of searchAPIHandler and the rows it had read
    statsPc,      \* the statement statsHandler is about to execute: "idle" | "max"
    totalRecords, \* the variable totalRecords of statsHandler
    statsReply    \* the last response of statsHandler

\* The variables of the runs of updateHandler.
runVars == <<txState, pc, fbDB, cursor, staffCards, pgDB, err, updateTime,
             insertCount, outcome, preRun>>
\* The variables of statsHandler.
statsVars == <<statsPc, totalRecords, statsReply>>

vars == <<now, staff_cards, archives, otherCols, txState, pc, fbDB, cursor,
          staffCards, pgDB, err, updateTime, insertCount, outcome, preRun,
          searchReply, statsPc, totalRecords, statsReply>>

(***************************************************************************)
(* Values                                                                  *)
(***************************************************************************)
\* sql.NullString
NullString(valid, s) == [Valid |-> valid, String |-> s]

\* A value of a nullable text column, in the source or in the destination.
SqlNull == [isNull |-> TRUE, val |-> ""]
SqlText(s) == [isNull |-> FALSE, val |-> s]

\* What rows.Scan stores into a sql.NullString for a nullable column value.
NullStringOf(v) == IF v.isNull THEN NullString(FALSE, "") ELSE NullString(TRUE, v.val)

\* A *string: <<>> is nil, <<s>> points to s.
Nil == <<>>
Ptr(s) == <<s>>

\* A decode without the Valid test: the field always points to the String.
PtrAlways(ns) == Ptr(ns.String)

\* lines 370-378 (and 553-567): a field is set only if the NullString is
\* valid; it then points to the String of the NullString of this row
PtrOf(ns) == IF ns.Valid THEN Ptr(ns.String) ELSE Nil

\* The i-th row the join of STAFF and STAFF_CARDS can return.  Over the rows a
\* name is NULL, empty or non-empty, and rows 1 and 2 share a card identifier.
NameKinds == << SqlNull, SqlText(""), SqlText("a") >>

SourceRow(i) ==
    [LAST_NAME   |-> NameKinds[((i + 2) % 3) + 1],
     FIRST_NAME  |-> NameKinds[(i % 3) + 1],
     MIDDLE_NAME |-> NameKinds[((i + 1) % 3) + 1],
     ID_STAFF    |-> i,
     IDENTIFIER  |-> IF i <= 2 THEN "c1" ELSE "c2"]

\* The results of the join: the source holds n staff/card pairs, the pairs
\* k+1 .. k+n.
SourceResults ==
    { [i \in 1 .. n |-> SourceRow(i + k)] : n \in 0 .. MaxRows, k \in 0 .. MaxOffset }

\* A decode that fills Status and Info as well.
ScanStaffCardStatus(row) ==
    [IDStaff    |-> row.ID_STAFF,
     Identifier |-> row.IDENTIFIER,
     LastName   |-> PtrOf(NullStringOf(row.LAST_NAME)),
     FirstName  |-> PtrOf(NullStringOf(row.FIRST_NAME)),
     MiddleName |-> PtrOf(NullStringOf(row.MIDDLE_NAME)),
     Status     |-> Ptr("active"),
     Info       |-> Ptr("")]

\* lines 360-380: one row of the result decoded into a StaffCard; Status and
\* Info are never assigned and keep their zero value nil
ScanStaffCard(row) ==
    [IDStaff    |-> row.ID_STAFF,
     Identifier |-> row.IDENTIFIER,
     LastName   |-> PtrOf(NullStringOf(row.LAST_NAME)),
     FirstName  |-> PtrOf(NullStringOf(row.FIRST_NAME)),
     MiddleName |-> PtrOf(NullStringOf(row.MIDDLE_NAME)),
     Status     |-> Nil,
     Info       |-> Nil]

\* time.Now().Format("20060102_150405") and Format("2006-01-02 15:04:05"):
\* both layouts keep whole seconds only
FormatSeconds(t) == t \div 2

(***************************************************************************)
(* The destination                                                         *)
(***************************************************************************)
requiredColumns ==
    {"id_staff", "identifier", "last_name", "first_name", "middle_name",
     "status", "info", "updated_at"}

NoTable == [exists |-> FALSE, cols |-> {}, rows |-> <<>>]

Range(f) == { f[i] : i \in DOMAIN f }

\* A *string passed to stmt.Exec: database/sql sends a nil pointer as NULL
\* and any other pointer as the string it points to.
Param(ptr) == IF ptr = Nil THEN SqlNull ELSE SqlText(ptr[1])

\* The column values the INSERT of lines 452-456 stores for the record sc.
StoredRecord(sc) ==
    [id_staff    |-> sc.IDStaff,
     identifier  |-> sc.Identifier,
     last_name   |-> Param(sc.LastName),
     first_name  |-> Param(sc.FirstName),
     middle_name |-> Param(sc.MiddleName),
     status      |-> Param(sc.Status),
     info        |-> Param(sc.Info)]

\* A stored row version: the values, updated_at, the run whose open
\* transaction inserted it (0: committed), the run whose open transaction
\* deleted it (0: none), and the runs whose DELETE saw it and waits for it.
RowVersion(sc, ts, xmin) ==
    [rec |-> sc, updated_at |-> ts, xmin |-> xmin, xmax |-> 0, targets |-> {}]

\* What a statement of another session reads.
Visible(rows) == SelectSeq(rows, LAMBDA r : r.xmin = 0)
Values(rows) == [i \in 1 .. Len(rows) |-> [rec |-> rows[i].rec, updated_at |-> rows[i].updated_at]]
CommittedRows(t) == Values(Visible(t.rows))

\* COMMIT of the transaction of run p
CommitRows(rows, p) ==
    LET kept == SelectSeq(rows, LAMBDA r : r.xmax # p)
    IN  [i \in 1 .. Len(kept) |->
            IF kept[i].xmin = p THEN [kept[i] EXCEPT !.xmin = 0] ELSE kept[i]]

\* ROLLBACK of the transaction of run p
RollbackRows(rows, p) ==
    LET kept == SelectSeq(rows, LAMBDA r : r.xmin # p)
    IN  [i \in 1 .. Len(kept) |->
            [kept[i] EXCEPT !.xmax = IF @ = p THEN 0 ELSE @,
                            !.targets = @ \ {p}]]

\* A transaction that is open on the server holds its locks.
TxOpen(st) == st \in {"begun", "locked"}

\* A row staff_cards holds when a request arrives; its status and info were
\* set at the destination.
OldRow ==
    [id_staff |-> 9, identifier |-> "c9", last_name |-> SqlText("old"),
     first_name |-> SqlNull, middle_name |-> SqlNull, status |-> SqlText("s"),
     info |-> SqlText("n")]

\* The shapes staff_cards can have when a request arrives: the one
\* initPostgresTable creates, one that lost a required column, one with an
\* added column.
InitShapes ==
    { requiredColumns, requiredColumns \ {"updated_at"}, requiredColumns \cup {"note"} }

InitTables ==
    { NoTable } \cup
    { [exists |-> TRUE, cols |-> c,
       rows |-> IF n = 0 THEN <<>>
                ELSE << RowVersion(OldRow,
                                   IF "updated_at" \in c THEN Ptr(0) ELSE Nil, 0) >>]
        : c \in InitShapes, n \in 0 .. 1 }

\* A table as the other sessions see it.
View(t) == [exists |-> t.exists, cols |-> t.cols, rows |-> CommittedRows(t)]

\* The committed destination: staff_cards and the archived tables.
Snapshot == [table |-> View(staff_cards), archives |-> archives]

NoSnapshot == [table |-> [exists |-> FALSE, cols |-> {}, rows |-> <<>>], archives |-> {}]

NoReply == [card |-> "", message |-> "none", results |-> <<>>, data |-> <<>>]

\* line 688: the last_update of a table that has no updated_at value
NeverUpdated == [never |-> TRUE, at |-> 0]

StatsReply(message, total, last) ==
    [message |-> message, total_records |-> total, last_update |-> last]

NoStats == StatsReply("none", 0, NeverUpdated)

Init ==
    /\ now = 0
    /\ staff_cards \in InitTables
    /\ archives = {}
    /\ otherCols \in { {}, requiredColumns }
    /\ txState = [p \in Runs |-> "none"]
    /\ pc = [p \in Runs |-> "idle"]
    /\ fbDB = [p \in Runs |-> "none"]
    /\ cursor = [p \in Runs |-> <<>>]
    /\ staffCards = [p \in Runs |-> <<>>]
    /\ pgDB = [p \in Runs |-> "none"]
    /\ err = [p \in Runs |-> "nil"]
    /\ updateTime = [p \in Runs |-> <<>>]
    /\ insertCount = [p \in Runs |-> 0]
    /\ outcome = [p \in Runs |-> "none"]
    /\ preRun = [p \in Runs |-> NoSnapshot]
    /\ searchReply = NoReply
    /\ statsPc = "idle"
    /\ totalRecords = 0
    /\ statsReply = NoStats

(***************************************************************************)
(* updateHandler                                                           *)
(***************************************************************************)
\* The deferred closure of lines 433-438, run when the handler returns with
\* function-scope err = e: it rolls back only if err # nil.  st is the state
\* of the transaction and rows the stored rows when the handler returns.
DeferredRollback(e, st) == IF e # "nil" /\ TxOpen(st) THEN "rolledback" ELSE st

DeferredRows(e, st, rows, p) ==
    IF e # "nil" /\ TxOpen(st) THEN RollbackRows(rows, p) ELSE rows

\* defer fbDB.Close() (line 340) and defer pgDB.Close() (line 412)
Closed(h) == IF h = "open" THEN "closed" ELSE h

\* The handler returns: the response is written and the deferred calls run
\* (stmt.Close, the rollback closure, pgDB.Close, rows.Close, fbDB.Close).
ReturnWith(p, out, e, st, rows) ==
    /\ pc' = [pc EXCEPT ![p] = "done"]
    /\ outcome' = [outcome EXCEPT ![p] = out]
    /\ err' = [err EXCEPT ![p] = e]
    /\ txState' = [txState EXCEPT ![p] = DeferredRollback(e, st)]
    /\ staff_cards' = [staff_cards EXCEPT !.rows = DeferredRows(e, st, rows, p)]
    /\ pgDB' = [pgDB EXCEPT ![p] = Closed(@)]
    /\ fbDB' = [fbDB EXCEPT ![p] = Closed(@)]
    /\ cursor' = [cursor EXCEPT ![p] = <<>>]

Return(p, out, e) == ReturnWith(p, out, e, txState[p], staff_cards.rows)

\* The handler goes on to its next statement.
Goto(p, label) ==
    /\ pc' = [pc EXCEPT ![p] = label]
    /\ UNCHANGED outcome

\* The locals of a handler that has returned are kept, for the properties,
\* until the next request arrives.
Dropped(f, p, zero) ==
    [q \in Runs |-> IF q < p /\ pc[q] = "done" THEN zero ELSE f[q]]

\* lines 324-331: the request arrives; only GET and POST start a run.  The
\* runs are numbered in the order of their arrival.
Start(p) ==
    /\ pc[p] = "idle"
    /\ \A q \in Runs : q < p => pc[q] # "idle"
    /\ preRun' = [Dropped(preRun, p, NoSnapshot) EXCEPT ![p] = Snapshot]
    /\ staffCards' = Dropped(staffCards, p, <<>>)
    /\ updateTime' = Dropped(updateTime, p, <<>>)
    /\ insertCount' = Dropped(insertCount, p, 0)
    /\ \E m \in {"GET", "POST", "PUT"} :
         IF m \in {"GET", "POST"}
         THEN /\ Goto(p, "connectFirebird")
              /\ err' = Dropped(err, p, "nil")
              /\ UNCHANGED <<txState, staff_cards, pgDB, fbDB, cursor>>
         ELSE ReturnWith(p, "Method not allowed", "nil", txState[p], staff_cards.rows)
    /\ UNCHANGED <<now, archives, otherCols, searchReply, statsVars>>

\* lines 334-340 and connectFirebird (173-199): sql.Open, then Ping.  When
\* Open fails no handle exists; when Ping fails connectFirebird returns
\* nil, err without closing the handle it opened, and the handler has
\* nothing to close.
ConnectFirebird(p) ==
    /\ pc[p] = "connectFirebird"
    /\ \E r \in {"ok", "open fails", "ping fails"} :
         CASE r = "ok" ->
                /\ fbDB' = [fbDB EXCEPT ![p] = "open"]
                /\ Goto(p, "query")
                /\ UNCHANGED <<err, txState, staff_cards, pgDB, cursor>>
           [] r = "open fails" ->
                Return(p, "Firebird connection error", "error")
           [] r = "ping fails" ->
                /\ pc' = [pc EXCEPT ![p] = "done"]
                /\ outcome' = [outcome EXCEPT ![p] = "Firebird connection error"]
                /\ err' = [err EXCEPT ![p] = "error"]
                /\ fbDB' = [fbDB EXCEPT ![p] = "open"]
                /\ UNCHANGED <<txState, staff_cards, pgDB, cursor>>
    /\ UNCHANGED <<now, archives, otherCols, staffCards, updateTime, insertCount, preRun, searchReply, statsVars>>

\* lines 344-355: the join is executed; its result is whatever the source holds
QueryFirebird(p) ==
    /\ pc[p] = "query"
    /\ \/ \E res \in SourceResults :
            /\ cursor' = [cursor EXCEPT ![p] = res]
            /\ Goto(p, "scan")
            /\ UNCHANGED <<err, txState, staff_cards, pgDB, fbDB>>
       \/ Return(p, "Firebird query error", "error")
    /\ UNCHANGED <<now, archives, otherCols, staffCards, updateTime, insertCount, preRun, searchReply, statsVars>>

\* A handler that starts on the destination as soon as it has decoded a row,
\* the rest of the result still to be read.
ScanRowStreaming(p) ==
    /\ pc[p] = "scan"
    /\ cursor[p] # <<>>
    /\ cursor' = [cursor EXCEPT ![p] = Tail(@)]
    /\ staffCards' = [staffCards EXCEPT ![p] = Append(@, ScanStaffCard(Head(cursor[p])))]
    /\ Goto(p, "connectPostgres")
    /\ UNCHANGED <<err, txState, staff_cards, pgDB, fbDB>>
    /\ UNCHANGED <<now, archives, otherCols, updateTime, insertCount, preRun, searchReply, statsVars>>

\* lines 359-394: rows.Next and rows.Scan, one row per step; rows.Err after
\* the loop
ScanRow(p) ==
    /\ pc[p] = "scan"
    /\ \/ /\ cursor[p] # <<>>
          /\ cursor' = [cursor EXCEPT ![p] = Tail(@)]
          /\ staffCards' = [staffCards EXCEPT ![p] = Append(@, ScanStaffCard(Head(cursor[p])))]
          /\ UNCHANGED <<pc, outcome, err, txState, staff_cards, pgDB, fbDB>>
       \/ /\ cursor[p] # <<>>
          /\ Return(p, "Error scanning row", "error")
          /\ UNCHANGED staffCards
       \/ /\ cursor[p] # <<>>
          /\ Return(p, "Error iterating rows", "error")
          /\ UNCHANGED staffCards
       \/ /\ cursor[p] = <<>>
          /\ Goto(p, "checkEmpty")
          /\ UNCHANGED <<cursor, staffCards, err, txState, staff_cards, pgDB, fbDB>>
    /\ UNCHANGED <<now, archives, otherCols, updateTime, insertCount, preRun, searchReply, statsVars>>

\* A check of the extraction that never fires.
NoDataNever(p) == Len(staffCards[p]) < 0

\* line 399
NoData(p) == Len(staffCards[p]) = 0

\* lines 398-403: nothing extracted, nothing written
CheckEmpty(p) ==
    /\ pc[p] = "checkEmpty"
    /\ IF NoData(p)
       THEN Return(p, "No data found in Firebird", err[p])
       ELSE /\ Goto(p, "connectPostgres")
            /\ UNCHANGED <<err, txState, staff_cards, pgDB, fbDB, cursor>>
    /\ UNCHANGED <<now, archives, otherCols, staffCards, updateTime, insertCount, preRun, searchReply, statsVars>>

\* lines 406-412 and connectPostgres (201-227): as connectFirebird
ConnectPostgres(p) ==
    /\ pc[p] = "connectPostgres"
    /\ \E r \in {"ok", "open fails", "ping fails"} :
         CASE r = "ok" ->
                /\ pgDB' = [pgDB EXCEPT ![p] = "open"]
                /\ Goto(p, "initExists")
                /\ UNCHANGED <<err, txState, staff_cards, fbDB, cursor>>
           [] r = "open fails" ->
                Return(p, "PostgreSQL connection error", "error")
           [] r = "ping fails" ->
                /\ pc' = [pc EXCEPT ![p] = "done"]
                /\ outcome' = [outcome EXCEPT ![p] = "PostgreSQL connection error"]
                /\ err' = [err EXCEPT ![p] = "error"]
                /\ pgDB' = [pgDB EXCEPT ![p] = "open"]
                /\ fbDB' = [fbDB EXCEPT ![p] = Closed(@)]
                /\ cursor' = [cursor EXCEPT ![p] = <<>>]
                /\ UNCHANGED <<txState, staff_cards>>
    /\ UNCHANGED <<now, archives, otherCols, staffCards, updateTime, insertCount, preRun, searchReply, statsVars>>

(***************************************************************************)
(* initPostgresTable, called at line 416                                   *)
(***************************************************************************)
\* A column query that finds no column.
ColumnsOfNoTable == {}

\* lines 247-251: the column names of every table named staff_cards; the
\* query does not restrict table_schema
ColumnsNamedStaffCards ==
    (IF staff_cards.exists THEN staff_cards.cols ELSE {}) \cup otherCols

\* A comparison that accepts the recognized set only.
HasExactColumns(columns) == columns = requiredColumns

\* lines 271-284
HasAllColumns(columns) == \A col \in requiredColumns : col \in columns

\* lines 231-244: does public.staff_cards exist?
InitExists(p) ==
    /\ pc[p] = "initExists"
    /\ \/ /\ Goto(p, IF staff_cards.exists THEN "initColumns" ELSE "initCreate")
          /\ UNCHANGED <<err, txState, staff_cards, pgDB, fbDB, cursor>>
       \/ Return(p, "Table initialization error", "error")
    /\ UNCHANGED <<now, archives, otherCols, staffCards, updateTime, insertCount, preRun, searchReply, statsVars>>

\* lines 246-286 and 316-318: the columns are read and compared
InitColumns(p) ==
    /\ pc[p] = "initColumns"
    /\ \/ /\ Goto(p, IF HasAllColumns(ColumnsNamedStaffCards) THEN "begin" ELSE "initRename")
          /\ UNCHANGED <<err, txState, staff_cards, pgDB, fbDB, cursor>>
       \/ Return(p, "Table initialization error", "error")
    /\ UNCHANGED <<now, archives, otherCols, staffCards, updateTime, insertCount, preRun, searchReply, statsVars>>

\* line 288
ArchiveName(t) == FormatSeconds(t)

\* ALTER TABLE takes an ACCESS EXCLUSIVE lock: it waits for every open
\* transaction that has touched the table.
TableLocked == \E q \in Runs : txState[q] = "locked"

\* ALTER TABLE staff_cards RENAME TO name
RenameFails(name) ==
    \/ ~staff_cards.exists
    \/ \E a \in archives : a.name = name

\* The renamed table keeps its columns and its rows.
Archived(name) ==
    [name |-> name, cols |-> staff_cards.cols, rows |-> CommittedRows(staff_cards)]

\* lines 286-295: the stale table is renamed
InitRename(p) ==
    /\ pc[p] = "initRename"
    /\ staff_cards.exists => ~TableLocked
    /\ \E t \in now .. MaxTime :
         /\ now' = t
         /\ \/ /\ ~RenameFails(ArchiveName(t))
               /\ archives' = archives \cup { Archived(ArchiveName(t)) }
               /\ staff_cards' = NoTable
               /\ Goto(p, "initCreate")
               /\ UNCHANGED <<err, txState, pgDB, fbDB, cursor>>
            \/ /\ Return(p, "Table initialization error", "error")
               /\ UNCHANGED archives
    /\ UNCHANGED <<otherCols, staffCards, updateTime, insertCount, preRun, searchReply, statsVars>>

\* lines 298-315: CREATE TABLE staff_cards
InitCreate(p) ==
    /\ pc[p] = "initCreate"
    /\ \/ /\ ~staff_cards.exists
          /\ staff_cards' = [exists |-> TRUE, cols |-> requiredColumns, rows |-> <<>>]
          /\ Goto(p, "begin")
          /\ UNCHANGED <<err, txState, pgDB, fbDB, cursor>>
       \/ Return(p, "Table initialization error", "error")
    /\ UNCHANGED <<now, archives, otherCols, staffCards, updateTime, insertCount, preRun, searchReply, statsVars>>

(***************************************************************************)
(* updateHandler: the load                                                 *)
(***************************************************************************)
\* lines 425-430
Begin(p) ==
    /\ pc[p] = "begin"
    /\ \/ /\ txState' = [txState EXCEPT ![p] = "begun"]
          /\ Goto(p, "delete")
          /\ UNCHANGED <<err, staff_cards, pgDB, fbDB, cursor>>
       \/ Return(p, "Transaction error", "error")
    /\ UNCHANGED <<now, archives, otherCols, staffCards, updateTime, insertCount, preRun, searchReply, statsVars>>

\* tx.Exec("DELETE FROM staff_cards"), line 442: the statement takes its
\* snapshot and its table lock; the rows it is to delete are those committed
\* at that moment.
DeleteTargets(rows, p) ==
    [i \in 1 .. Len(rows) |->
        IF rows[i].xmin = 0 THEN [rows[i] EXCEPT !.targets = @ \cup {p}] ELSE rows[i]]

\* The statement waits while a row it is to delete is deleted by another
\* open transaction.
DeleteBlocked(rows, p) ==
    \E i \in 1 .. Len(rows) : p \in rows[i].targets /\ rows[i].xmax \notin {0, p}

\* The rows of its snapshot that still exist are deleted.
DeleteRows(rows, p) ==
    [i \in 1 .. Len(rows) |->
        IF p \in rows[i].targets
        THEN [rows[i] EXCEPT !.xmax = p, !.targets = @ \ {p}]
        ELSE rows[i]]

\* lines 440-447, the DELETE is sent
Delete(p) ==
    /\ pc[p] = "delete"
    /\ \/ /\ staff_cards.exists
          /\ txState' = [txState EXCEPT ![p] = "locked"]
          /\ staff_cards' = [staff_cards EXCEPT !.rows = DeleteTargets(@, p)]
          /\ Goto(p, "deleted")
          /\ UNCHANGED <<err, pgDB, fbDB, cursor>>
       \/ Return(p, "Error clearing table", "error")
    /\ UNCHANGED <<now, archives, otherCols, staffCards, updateTime, insertCount, preRun, searchReply, statsVars>>

\* lines 440-447, the DELETE returns
Deleted(p) ==
    /\ pc[p] = "deleted"
    /\ ~DeleteBlocked(staff_cards.rows, p)
    /\ \/ /\ staff_cards' = [staff_cards EXCEPT !.rows = DeleteRows(@, p)]
          /\ err' = [err EXCEPT ![p] = "nil"]
          /\ Goto(p, "prepare")
          /\ UNCHANGED <<txState, pgDB, fbDB, cursor>>
       \/ Return(p, "Error clearing table", "error")
    /\ UNCHANGED <<now, archives, otherCols, staffCards, updateTime, insertCount, preRun, searchReply, statsVars>>

\* The INSERT of lines 452-456 names the eight required columns.
PrepareFails == ~(requiredColumns \subseteq staff_cards.cols)

\* lines 449-462: updateTime is read from the clock, the INSERT is prepared
Prepare(p) ==
    /\ pc[p] = "prepare"
    /\ \E t \in now .. MaxTime :
         /\ now' = t
         /\ updateTime' = [updateTime EXCEPT ![p] = Ptr(FormatSeconds(t))]
         /\ \/ /\ ~PrepareFails
               /\ err' = [err EXCEPT ![p] = "nil"]
               /\ Goto(p, "insert")
               /\ UNCHANGED <<txState, staff_cards, pgDB, fbDB, cursor>>
            \/ Return(p, "Error preparing statement", "error")
    /\ UNCHANGED <<archives, otherCols, staffCards, insertCount, preRun, searchReply, statsVars>>

\* An INSERT sent outside the transaction: committed at once.
InsertRowAutocommit(rows, sc, ts, p) == Append(rows, RowVersion(StoredRecord(sc), ts, 0))

\* An INSERT that replaces the row the run has already written for the card.
InsertRowUpsert(rows, sc, ts, p) ==
    IF \E i \in 1 .. Len(rows) : rows[i].xmin = p /\ rows[i].rec.identifier = sc.Identifier
    THEN [i \in 1 .. Len(rows) |->
            IF rows[i].xmin = p /\ rows[i].rec.identifier = sc.Identifier
            THEN RowVersion(StoredRecord(sc), ts, p) ELSE rows[i]]
    ELSE Append(rows, RowVersion(StoredRecord(sc), ts, p))

\* stmt.Exec of lines 467-476 for the record sc
InsertRow(rows, sc, ts, p) == Append(rows, RowVersion(StoredRecord(sc), ts, p))

\* lines 465-488: one record per step.  The err of line 467 is declared in
\* the loop body, so a failed insert returns with the function-scope err
\* still nil.
Insert(p) ==
    /\ pc[p] = "insert"
    /\ \/ /\ insertCount[p] < Len(staffCards[p])
          /\ staff_cards' = [staff_cards EXCEPT !.rows =
                 InsertRow(@, staffCards[p][insertCount[p] + 1], updateTime[p], p)]
          /\ insertCount' = [insertCount EXCEPT ![p] = @ + 1]
          /\ UNCHANGED <<pc, outcome, err, txState, pgDB, fbDB, cursor>>
       \/ /\ insertCount[p] < Len(staffCards[p])
          /\ Return(p, "Error inserting data", err[p])
          /\ UNCHANGED insertCount
       \/ /\ insertCount[p] = Len(staffCards[p])
          /\ Goto(p, "commit")
          /\ UNCHANGED <<err, txState, staff_cards, pgDB, fbDB, cursor, insertCount>>
    /\ UNCHANGED <<now, archives, otherCols, staffCards, updateTime, preRun, searchReply, statsVars>>

\* lines 490-501: a commit that fails has left the transaction aborted
Commit(p) ==
    /\ pc[p] = "commit"
    /\ \/ ReturnWith(p, "Updated", "nil", "committed", CommitRows(staff_cards.rows, p))
       \/ ReturnWith(p, "Error committing transaction", "error", "rolledback",
                     RollbackRows(staff_cards.rows, p))
    /\ UNCHANGED <<now, archives, otherCols, staffCards, updateTime, insertCount, preRun, searchReply, statsVars>>

\* line 498: "records_updated" of the success response
RecordsUpdated(p) == Len(staffCards[p])

(***************************************************************************)
(* searchAPIHandler                                                        *)
(***************************************************************************)
\* The columns the SELECT of lines 528-532 names.
searchColumns ==
    {"id_staff", "identifier", "last_name", "first_name", "middle_name", "status", "info"}

\* The SELECT fails on a missing table or column.
SearchFails(v) == ~v.exists \/ ~(searchColumns \subseteq v.cols)

\* lines 543-569: one row of the result decoded into a StaffCard
ScanSearchRow(r) ==
    [IDStaff    |-> r.rec.id_staff,
     Identifier |-> r.rec.identifier,
     LastName   |-> PtrOf(NullStringOf(r.rec.last_name)),
     FirstName  |-> PtrOf(NullStringOf(r.rec.first_name)),
     MiddleName |-> PtrOf(NullStringOf(r.rec.middle_name)),
     Status     |-> PtrOf(NullStringOf(r.rec.status)),
     Info       |-> PtrOf(NullStringOf(r.rec.info))]

\* The orders in which a SELECT without ORDER BY can return n rows: the
\* order of the result is not determined by the statement.
Orders(n) ==
    { o \in [1 .. n -> 1 .. n] : \A i, j \in 1 .. n : o[i] = o[j] => i = j }

\* lines 528-570: the committed rows WHERE identifier = card, decoded in the
\* order the database returns them; the slices results the loop can build
SearchResults(v, card) ==
    LET hits == SelectSeq(v.rows, LAMBDA r : r.rec.identifier = card)
    IN  { [i \in 1 .. Len(hits) |-> ScanSearchRow(hits[o[i]])] : o \in Orders(Len(hits)) }

Reply(card, message, results, data) ==
    [card |-> card, message |-> message, results |-> results, data |-> data]

\* lines 572-578: the response for the slice results
ResultsReply(card, results) ==
    IF Len(results) = 0
    THEN Reply(card, "Card not found", results, <<>>)
    ELSE Reply(card, "Card found", results, << results[1] >>)

\* lines 533-578: the responses a search of the table seen as v can get
QueryReplies(v, card) ==
    IF SearchFails(v)
    THEN { Reply(card, "Search error", <<>>, <<>>) }
    ELSE { ResultsReply(card, results) : results \in SearchResults(v, card) }

\* lines 505-579: one GET /api/search?card=...; the query is one statement
SearchAPI ==
    /\ \E m \in {"GET", "POST"}, card \in {"", "c1", "c2", "c9"} :
         \/ /\ m # "GET"
            /\ searchReply' = Reply(card, "Method not allowed", <<>>, <<>>)
         \/ /\ m = "GET" /\ card = ""
            /\ searchReply' = Reply(card, "Missing 'card' parameter", <<>>, <<>>)
         \/ /\ m = "GET" /\ card # ""
            /\ searchReply' = Reply(card, "PostgreSQL connection error", <<>>, <<>>)
         \/ /\ m = "GET" /\ card # ""
            /\ searchReply' \in QueryReplies(View(staff_cards), card)
    /\ UNCHANGED <<now, staff_cards, archives, otherCols, runVars, statsVars>>

(***************************************************************************)
(* statsHandler                                                            *)
(***************************************************************************)
\* SELECT COUNT(*) FROM staff_cards over the committed rows
CountRows(rows) == Len(rows)

\* SELECT MAX(updated_at) FROM staff_cards over the committed rows: NULL when
\* no row has a value
MaxUpdatedAt(rows) ==
    LET at == { rows[i].updated_at[1] : i \in { j \in 1 .. Len(rows) : rows[j].updated_at # Nil } }
    IN  IF at = {} THEN Nil ELSE Ptr(CHOOSE a \in at : \A b \in at : b <= a)

\* lines 688-691
LastUpdateStr(lastUpdate) ==
    IF lastUpdate = Nil THEN NeverUpdated ELSE [never |-> FALSE, at |-> lastUpdate[1]]

\* lines 657-678: the request arrives, the handler connects and counts; the
\* COUNT is one statement, autocommitted
StatsCount ==
    /\ statsPc = "idle"
    /\ \E m \in {"GET", "POST"}, r \in {"ok", "connection fails"} :
         CASE m # "GET" ->
                /\ statsReply' = StatsReply("Method not allowed", 0, NeverUpdated)
                /\ UNCHANGED <<statsPc, totalRecords>>
           [] m = "GET" /\ r # "ok" ->
                /\ statsReply' = StatsReply("PostgreSQL connection error", 0, NeverUpdated)
                /\ UNCHANGED <<statsPc, totalRecords>>
           [] m = "GET" /\ r = "ok" /\ ~staff_cards.exists ->
                /\ statsReply' = StatsReply("Error getting stats", 0, NeverUpdated)
                /\ UNCHANGED <<statsPc, totalRecords>>
           [] m = "GET" /\ r = "ok" /\ staff_cards.exists ->
                /\ totalRecords' = CountRows(CommittedRows(staff_cards))
                /\ statsPc' = "max"
                /\ statsReply' = NoStats
    /\ UNCHANGED <<now, staff_cards, archives, otherCols, runVars, searchReply>>

\* lines 680-698: the MAX is a second statement, autocommitted as well; then
\* the response is written
StatsMax ==
    /\ statsPc = "max"
    /\ statsPc' = "idle"
    /\ totalRecords' = 0
    /\ IF ~staff_cards.exists \/ "updated_at" \notin staff_cards.cols
       THEN statsReply' = StatsReply("Error getting last update time", 0, NeverUpdated)
       ELSE statsReply' = StatsReply("Statistics retrieved", totalRecords,
                                     LastUpdateStr(MaxUpdatedAt(CommittedRows(staff_cards))))
    /\ UNCHANGED <<now, staff_cards, archives, otherCols, runVars, searchReply>>

\* One statement of the run p, once it has started.
Step(p) ==
    \/ ConnectFirebird(p)
    \/ QueryFirebird(p)
    \/ ScanRow(p)
    \/ CheckEmpty(p)
    \/ ConnectPostgres(p)
    \/ InitExists(p)
    \/ InitColumns(p)
    \/ InitRename(p)
    \/ InitCreate(p)
    \/ Begin(p)
    \/ Delete(p)
    \/ Deleted(p)
    \/ Prepare(p)
    \/ Insert(p)
    \/ Commit(p)

\* The requests are served concurrently: net/http runs every handler call in
\* its own goroutine and updateHandler takes no lock.
Next == \E p \in Runs : Start(p) \/ Step(p)

Spec == Init /\ [][Next]_vars

\* At most one /update request is outstanding at a time.
NoRunInFlight == \A q \in Runs : pc[q] \in {"idle", "done"}

StartAlone(p) == NoRunInFlight /\ Start(p)

NextSeq == \E p \in Runs : StartAlone(p) \/ Step(p)

SpecSeq == Init /\ [][NextSeq]_vars

\* One /update request, and any number of searches while it is served.
NextRead == (\E p \in {1} : Start(p) \/ Step(p)) \/ SearchAPI

SpecRead == Init /\ [][NextRead]_vars

\* One /update request, and any number of statistics requests while it is
\* served.
NextStats == (\E p \in {1} : Start(p) \/ Step(p)) \/ StatsCount \/ StatsMax

SpecStats == Init /\ [][NextStats]_vars

(***************************************************************************)
(* Properties                                                              *)
(***************************************************************************)
\* No request arrived after the request p.
NoLaterRun(p) == \A q \in Runs : q > p => pc[q] = "idle"

LoadStages == {"begin", "delete", "deleted", "prepare", "insert", "commit"}
ReconcileStages == {"initExists", "initColumns", "initRename", "initCreate"}
LoadOutcomes ==
    {"Transaction error", "Error clearing table", "Error preparing statement",
     "Error inserting data", "Error committing transaction", "Updated"}

\* initPostgresTable has returned nil to the run p.
Reconciled(p) == pc[p] \in LoadStages \/ outcome[p] \in LoadOutcomes

\* The rows a committed load of the records R stamped ts consists of.
Loaded(R, ts) == [i \in 1 .. Len(R) |-> [rec |-> StoredRecord(R[i]), updated_at |-> ts]]

\* C1: when an insert of the load loop fails at any index, the table having
\* had the required columns, the reads made after the run has returned see
\* exactly the rows committed before the run started: not the emptied table,
\* not a prefix of the extracted records.
C1_AtomicLoad ==
    \A p \in Runs :
        ( /\ outcome[p] = "Error inserting data"
          /\ NoLaterRun(p)
          /\ preRun[p].table.exists
          /\ requiredColumns \subseteq preRun[p].table.cols )
        => View(staff_cards) = preRun[p].table

C1_Witness ==
    \E p \in Runs :
        /\ outcome[p] = "Error inserting data"
        /\ insertCount[p] = 1
        /\ NoLaterRun(p)
        /\ preRun[p].table.exists
        /\ requiredColumns \subseteq preRun[p].table.cols
        /\ preRun[p].table.rows # <<>>

\* C2: a run that has returned has left no transaction open: on every error
\* after Begin (DELETE, prepare, any insert, commit) the transaction was
\* rolled back.
C2_RollbackOnEveryWriteError ==
    \A p \in Runs : pc[p] = "done" => ~TxOpen(txState[p])

\* C3: after a run that found a table staff_cards, of whatever shape, and
\* failed at any stage, the destination tables and the rows of staff_cards
\* are those of before the run.
C3_FailedRunLeavesPreRunState ==
    \A p \in Runs :
        ( /\ pc[p] = "done" /\ outcome[p] # "Updated"
          /\ NoLaterRun(p)
          /\ preRun[p].table.exists )
        => Snapshot = preRun[p]

\* C4: a run whose extraction is empty fails with "No data found in
\* Firebird", has opened no destination connection and no transaction, and
\* leaves the destination as it was; no run reaches the destination stages
\* or succeeds with nothing extracted.
C4_EmptySourceRejected ==
    \A p \in Runs :
        NoLaterRun(p) =>
        /\ (pc[p] \in {"connectPostgres"} \cup ReconcileStages \cup LoadStages
              \/ pgDB[p] # "none" \/ txState[p] # "none" \/ outcome[p] = "Updated")
           => Len(staffCards[p]) > 0
        /\ (pc[p] = "done" /\ Len(staffCards[p]) = 0)
           => outcome[p] \in {"Method not allowed", "Firebird connection error",
                              "Firebird query error", "Error scanning row",
                              "Error iterating rows", "No data found in Firebird"}
        /\ outcome[p] = "No data found in Firebird"
           => /\ pgDB[p] = "none"
              /\ txState[p] = "none"
              /\ Snapshot = preRun[p]

C4_Witness ==
    \E p \in Runs :
        /\ outcome[p] = "No data found in Firebird"
        /\ NoLaterRun(p)
        /\ preRun[p].table.rows # <<>>

\* C5: after a run that succeeded, the committed rows of staff_cards are
\* exactly the extracted records, in their order, each stamped updateTime;
\* records sharing an identifier are separate rows and no old row is left.
C5_FullReplace ==
    \A p \in Runs :
        (outcome[p] = "Updated" /\ NoLaterRun(p))
        => /\ staff_cards.exists
           /\ CommittedRows(staff_cards) = Loaded(staffCards[p], updateTime[p])

C5_Witness ==
    \E p \in Runs :
        /\ outcome[p] = "Updated"
        /\ NoLaterRun(p)
        /\ Len(preRun[p].table.rows) = 1
        /\ Len(staffCards[p]) = 2
        /\ staffCards[p][1].Identifier = staffCards[p][2].Identifier
        /\ Len(CommittedRows(staff_cards)) = 2

\* The updated_at values the committed rows of a table hold.
Stamps(t) == { r.updated_at[1] : r \in { x \in Range(CommittedRows(t)) : x.updated_at # Nil } }

\* C6: every row a run has inserted carries the one updateTime of that run,
\* and no step (no commit, in particular) brings into the destination an
\* updated_at older than one the destination held before.
C6_SyncTimestamp ==
    [][ /\ \A p \in Runs : \A i \in 1 .. Len(staff_cards'.rows) :
              (staff_cards'.rows[i].xmin = p /\ pc'[p] \in {"insert", "commit"})
              => staff_cards'.rows[i].updated_at = updateTime'[p]
        /\ \A a \in Stamps(staff_cards), b \in Stamps(staff_cards') : a <= b ]_vars

\* C7: two runs are never both between the call of initPostgresTable and the
\* end of their transaction.
C7_OneRunInFlight ==
    \A p, q \in Runs :
        p # q => ~( pc[p] \in ReconcileStages \cup LoadStages
                    /\ pc[q] \in ReconcileStages \cup LoadStages )

\* C8: a search of an existing table staff_cards, of whatever shape, that is
\* answered while a sync run is being served (or after it) is the answer the
\* destination of before the run gives, or the one the destination loaded
\* with the extracted records gives; never that of a missing, empty or
\* partly loaded table.
C8_ReadersSeeOldOrNew ==
    ( /\ pc[1] # "idle"
      /\ preRun[1].table.exists
      /\ searchReply.message \in {"Search error", "Card not found", "Card found"} )
    => \/ searchReply \in QueryReplies(preRun[1].table, searchReply.card)
       \/ searchReply \in
            QueryReplies([exists |-> TRUE, cols |-> requiredColumns,
                          rows |-> Loaded(staffCards[1], updateTime[1])],
                         searchReply.card)

\* The reconciliation of the run p has left the table it found in place.
Kept(p) ==
    /\ archives = preRun[p].archives
    /\ staff_cards.exists
    /\ staff_cards.cols = preRun[p].table.cols

C10_DriftTriggersMigration ==
    \A p \in Runs :
        ( /\ Reconciled(p) /\ NoLaterRun(p)
          /\ preRun[p].table.exists
          /\ ~(requiredColumns \subseteq preRun[p].table.cols) )
        => /\ \E a \in archives \ preRun[p].archives :
                 a.cols = preRun[p].table.cols /\ a.rows = preRun[p].table.rows
           /\ staff_cards.exists
           /\ staff_cards.cols = requiredColumns
           /\ pc[p] = "begin" => staff_cards.rows = <<>>

\* public.staff_cards has every required column.
Correct == staff_cards.exists /\ requiredColumns \subseteq staff_cards.cols

ReadStages == {"connectFirebird", "query", "scan", "checkEmpty"}
ReadOutcomes ==
    {"Firebird connection error", "Firebird query error", "Error scanning row",
     "Error iterating rows", "No data found in Firebird"}

\* The stage a run is in: 0 Idle, 1 Reading, 2 Reconciling (from the opening
\* of the destination on), 3 Loading, 4 Done or Failed.
StageOf(label) ==
    CASE label = "idle" -> 0
      [] label \in ReadStages -> 1
      [] label \in {"connectPostgres"} \cup ReconcileStages -> 2
      [] label \in LoadStages -> 3
      [] label = "done" -> 4

\* C12: a run moves from a stage to the same or the next stage, or to Failed;
\* it reaches Done (success) from Loading only; once returned it does nothing
\* more; it enters the destination stages with the source result wholly
\* decoded; a run that failed while reading has opened no destination handle
\* and no transaction, and no transaction exists before Loading.
C12_StageOrder ==
    [][ \A p \in Runs :
          /\ \/ StageOf(pc'[p]) \in {StageOf(pc[p]), StageOf(pc[p]) + 1}
             \/ pc'[p] = "done" /\ outcome'[p] # "Updated"
          /\ (pc[p] # "done" /\ outcome'[p] = "Updated") => StageOf(pc[p]) = 3
          /\ pc[p] = "done" => (pc'[p] = "done" /\ outcome'[p] = outcome[p])
          /\ StageOf(pc'[p]) \in {2, 3} => cursor'[p] = <<>>
          /\ (StageOf(pc[p]) = 1 /\ StageOf(pc'[p]) = 2)
             => /\ pc[p] = "checkEmpty"
                /\ \E res \in SourceResults :
                      staffCards'[p] = [i \in 1 .. Len(res) |-> ScanStaffCard(res[i])]
          /\ StageOf(pc'[p]) <= 1 \/ outcome'[p] \in ReadOutcomes
             => pgDB'[p] = "none" /\ txState'[p] = "none"
          /\ StageOf(pc'[p]) <= 2 => txState'[p] = "none" ]_vars

\* One run went through every stage with the whole result, another failed
\* while reconciling.
C12_Witness ==
    \E p, q \in Runs :
        /\ outcome[p] = "Updated"
        /\ Len(staffCards[p]) = MaxRows
        /\ outcome[q] = "Table initialization error"
        /\ txState[q] = "none"

\* C13: a run reports success exactly when its commit succeeded, and the
\* count it reports is the number of rows it inserted, all of them now the
\* committed rows of staff_cards; a failed commit, every insert having
\* succeeded, is reported as such and not as a failed insert, and the rows of
\* staff_cards are then those of before the run.
C13_OutcomeReporting ==
    \A p \in Runs :
        NoLaterRun(p) =>
        /\ outcome[p] = "Updated" <=> (pc[p] = "done" /\ txState[p] = "committed")
        /\ outcome[p] = "Updated"
           => /\ RecordsUpdated(p) = insertCount[p]
              /\ RecordsUpdated(p) = Len(CommittedRows(staff_cards))
        /\ outcome[p] = "Error inserting data" => insertCount[p] < Len(staffCards[p])
        /\ outcome[p] = "Error committing transaction"
           => /\ insertCount[p] = Len(staffCards[p])
              /\ txState[p] = "rolledback"
              /\ CommittedRows(staff_cards) = preRun[p].table.rows

\* The run p commits successfully in this step.
Commits(p) == outcome[p] = "none" /\ outcome'[p] = "Updated"

\* C14: whatever the interleaving of the runs, a successful commit makes the
\* committed content of staff_cards exactly the records the committing run
\* extracted, and no other step changes the committed content of the table:
\* the content is always that of the run that committed last, never a
\* mixture or union of the records of two runs.
C14_LastFullSyncWins ==
    [][ /\ \A p \in Runs :
              Commits(p) => CommittedRows(staff_cards') = Loaded(staffCards[p], updateTime[p])
        /\ ( /\ \A p \in Runs : ~Commits(p)
             /\ staff_cards.exists /\ staff_cards'.exists )
           => CommittedRows(staff_cards') = CommittedRows(staff_cards) ]_vars

\* The pointer field f holds the column value v: nil for NULL and only for
\* NULL, a pointer to the empty string for the empty string and only for it.
Holds(f, v) ==
    /\ v.isNull <=> f = Nil
    /\ (~v.isNull /\ v.val = "") <=> f = Ptr("")
    /\ ~v.isNull => f = Ptr(v.val)

\* The names of the record sc are those of the source row it was read from.
Faithful(sc) ==
    LET src == SourceRow(sc.IDStaff)
    IN  /\ Holds(sc.LastName, src.LAST_NAME)
        /\ Holds(sc.FirstName, src.FIRST_NAME)
        /\ Holds(sc.MiddleName, src.MIDDLE_NAME)

\* C15: every decoded record, those decoded before later rows included,
\* carries nil for a source NULL and a pointer to "" for a source empty
\* string; every row the run has written stores NULL and '' accordingly; and
\* a search that finds a row of the run returns records with nil for NULL and
\* "" for the empty string.
C15_NullFidelity ==
    /\ \A p \in Runs : \A i \in 1 .. Len(staffCards[p]) : Faithful(staffCards[p][i])
    /\ \A i \in 1 .. Len(staff_cards.rows) :
          LET r == staff_cards.rows[i]
          IN  r.rec.id_staff # OldRow.id_staff
              => /\ r.rec.last_name = SourceRow(r.rec.id_staff).LAST_NAME
                 /\ r.rec.first_name = SourceRow(r.rec.id_staff).FIRST_NAME
                 /\ r.rec.middle_name = SourceRow(r.rec.id_staff).MIDDLE_NAME
    /\ (searchReply.message = "Card found" /\ searchReply.card # OldRow.identifier)
       => /\ \A j \in 1 .. Len(searchReply.results) : Faithful(searchReply.results[j])
          /\ Faithful(searchReply.data[1])

\* A search has returned the first of two loaded records: its last name was
\* NULL in the source, its first name the empty string.
C15_Witness ==
    /\ outcome[1] = "Updated"
    /\ Len(staffCards[1]) = 2
    /\ searchReply.message = "Card found"
    /\ SourceRow(searchReply.data[1].IDStaff).LAST_NAME = SqlNull
    /\ searchReply.data[1].LastName = Nil
    /\ SourceRow(searchReply.data[1].IDStaff).FIRST_NAME = SqlText("")
    /\ searchReply.data[1].FirstName = Ptr("")

\* C16: when a run has returned, by whatever path, the Firebird handle that
\* connectFirebird opened for it, if any, has been closed.
C16_SourceHandleReleased ==
    \A p \in Runs : pc[p] = "done" => fbDB[p] # "open"

\* C17: whenever a reconciliation executes its archival rename of a table
\* staff_cards that is there, no archive
\* made by another reconciliation bears the name it has computed from the
\* clock, so the rename does not fail on an existing staff_cards_old_<ts>;
\* the archives made all differ in name.
C17_ArchiveNameUnique ==
    [][ /\ \A p \in Runs :
              (pc[p] = "initRename" /\ pc'[p] # pc[p] /\ staff_cards.exists)
              => \A a \in archives : a.name # ArchiveName(now')
        /\ \A a, b \in archives' : a.name = b.name => a = b ]_vars

\* The row r has no status and no info.
NoStatusInfo(r) == r.rec.status = SqlNull /\ r.rec.info = SqlNull

\* C18: every row a sync run writes, committed or not, has status and info
\* NULL; and once a run has succeeded every committed row of staff_cards
\* has, the rows that had a status before having been replaced.
C18_StatusInfoAbsent ==
    /\ \A i \in 1 .. Len(staff_cards.rows) :
          staff_cards.rows[i].rec.id_staff # OldRow.id_staff
          => NoStatusInfo(staff_cards.rows[i])
    /\ (\E p \in Runs : outcome[p] = "Updated")
       => \A i \in 1 .. Len(CommittedRows(staff_cards)) :
             NoStatusInfo(CommittedRows(staff_cards)[i])

\* A run has replaced a row that had a status by two records.
C18_Witness ==
    \E p \in Runs :
        /\ outcome[p] = "Updated"
        /\ Len(preRun[p].table.rows) = 1
        /\ preRun[p].table.rows[1].rec.status # SqlNull
        /\ Len(CommittedRows(staff_cards)) = 2

\* The committed rows of staff_cards whose identifier is card.
Matching(card) ==
    SelectSeq(CommittedRows(staff_cards), LAMBDA r : r.rec.identifier = card)

\* C19: a search for a non-empty card that the database answers returns
\* "Card not found" only if no committed row has that identifier and "Card
\* found" only if one has, then with one record, the first of the matching
\* result, however many rows match; and a search that finds the same matching
\* rows for the same card as the search before returns the same record.
C19_SearchByIdentifier ==
    [][ searchReply' # searchReply =>
        /\ searchReply'.message = "Card not found"
           => Len(Matching(searchReply'.card)) = 0
        /\ searchReply'.message = "Card found"
           => /\ Len(Matching(searchReply'.card)) > 0
              /\ Len(searchReply'.results) = Len(Matching(searchReply'.card))
              /\ Len(searchReply'.data) = 1
              /\ searchReply'.data[1] = searchReply'.results[1]
              /\ searchReply'.data[1].Identifier = searchReply'.card
        /\ ( /\ searchReply.message = "Card found"
             /\ searchReply'.message = "Card found"
             /\ searchReply'.card = searchReply.card
             /\ Range(searchReply'.results) = Range(searchReply.results) )
           => searchReply'.data = searchReply.data ]_vars

\* C20: when initPostgresTable has read the columns of the table staff_cards
\* it found in schema public, it keeps the table exactly if that table has
\* every required column and goes on to archive it otherwise, whatever the
\* columns of a table of the same name in another schema.
C20_StalenessCheckScope ==
    [][ \A p \in Runs :
          ( /\ pc[p] = "initColumns"
            /\ pc'[p] \in {"begin", "initRename"}
            /\ staff_cards.exists )
          => (pc'[p] = "begin" <=> requiredColumns \subseteq staff_cards.cols) ]_vars

\* The pair statsHandler returns for the committed rows S.
StatsOf(S) == StatsReply("Statistics retrieved", CountRows(S), LastUpdateStr(MaxUpdatedAt(S)))

\* The committed contents staff_cards has had up to now, one run having been
\* served at most: the present one, the one the run found, the empty table
\* it created or emptied, the records it loaded.
CommittedContents ==
    { CommittedRows(staff_cards) } \cup
    ( IF pc[1] = "idle" THEN {}
      ELSE { preRun[1].table.rows, <<>>, Loaded(staffCards[1], updateTime[1]) } )

\* C21: the pair (total_records, last_update) of a statistics response is
\* that of one committed content of staff_cards, also when a run commits
\* during the call; for an empty table it is (0, "Never updated").
C21_ConsistentStatistics ==
    statsReply.message = "Statistics retrieved"
    => /\ \E S \in CommittedContents : statsReply = StatsOf(S)
       /\ statsReply.total_records = 0 => statsReply.last_update = NeverUpdated

=============================================================================
